---- MODULE Spec2Model ----
(***************************************************************************)
(* Model of the PTG-based RRT planner of prrt: the search tree             *)
(* (planner.py: Node, Edge, Tree), the tree-growth loop Planner.solve and  *)
(* the trajectory generator queries it calls (ptg.py: PTG, APTG).  Spec    *)
(* is a run of solve, LiveSpec the same run under fair scheduling, and     *)
(* QuerySpec one call of a query of PTG, APTG or Planner on its own.       *)
(*                                                                         *)
(* Arithmetic.  The program computes with floats; the model computes with  *)
(* integers in fixed point.  Lengths are in units of 1/Scale metre, so     *)
(* with Scale = 10 the literal 0.1 of planner.py:268 is exactly one unit;  *)
(* math.sqrt is the floor of the square root in these units.               *)
(* Headings are in quarter turns (pi/2), kept modulo 4, which makes the    *)
(* pose composition exact on the integer lattice; a heading difference is  *)
(* compared with a tolerance given in milliradians through                 *)
(* QuarterTurnMilliRad.  Articulation angles are in units of half the      *)
(* APTG's phi_resolution.  float('inf') is the number Inf, larger than     *)
(* every length of the model.                                              *)
(***************************************************************************)
EXTENDS Integers, Sequences, FiniteSets, TLC

\* ------------------------------------------------------------------------
\* Units

Scale == 10
QuarterTurnMilliRad == 1571
Inf == 100000000

\* ------------------------------------------------------------------------
\* Numeric helpers

\* F of the value of v; v is evaluated once, before F is applied
With(v, F(_)) == CHOOSE r \in {F(x) : x \in {v}} : TRUE

Abs(x) == IF x < 0 THEN -x ELSE x

Min2(a, b) == IF a < b THEN a ELSE b

Max2(a, b) == IF a > b THEN a ELSE b

SetMax(S) == CHOOSE m \in S : \A s \in S : s <= m

SetMin(S) == CHOOSE m \in S : \A s \in S : m <= s

Sign(x) == IF x > 0 THEN 1 ELSE IF x < 0 THEN -1 ELSE 0

\* Newton's iteration for the square root of n, from an estimate x that is
\* not below it
RECURSIVE ISqrtFrom(_, _)
ISqrtFrom(n, x) ==
    With((x + n \div x) \div 2, LAMBDA y : IF y >= x THEN x ELSE ISqrtFrom(n, y))

\* floor of the square root of a natural number
ISqrt(n) == With(n, LAMBDA m : IF m < 2 THEN m ELSE ISqrtFrom(m, m))

\* math.sqrt applied to a length: sqrt(d / Scale) * Scale = sqrt(Scale * d)
SqrtLen(d) == IF d < 0 THEN -1 ELSE ISqrt(Scale * d)

\* floor division that also serves negative numerators
FloorDiv(a, b) == a \div b

\* numpy.rint of the quotient a / b (b > 0): nearest integer, halves to even
Rint(a, b) ==
    LET q == a \div b
        r == a % b
    IN  IF 2 * r < b THEN q
        ELSE IF 2 * r > b THEN q + 1
        ELSE IF q % 2 = 0 THEN q ELSE q + 1

\* ------------------------------------------------------------------------
\* PoseR2S2 (prrt.primitive): x, y, theta, phi

Pose(x, y, theta, phi) == [x |-> x, y |-> y, theta |-> theta % 4, phi |-> phi]

\* rotation of the vector (x, y) by q quarter turns
RotX(q, x, y) ==
    CASE q % 4 = 0 -> x [] q % 4 = 1 -> -y [] q % 4 = 2 -> -x [] OTHER -> y

RotY(q, x, y) ==
    CASE q % 4 = 0 -> y [] q % 4 = 1 -> x [] q % 4 = 2 -> -y [] OTHER -> -x

\* a + b: the pose b, given in the frame of a, expressed in the frame of a's
\* frame; the articulation angle is the one of b
PoseAdd(a, b) ==
    Pose(a.x + RotX(a.theta, b.x, b.y), a.y + RotY(a.theta, b.x, b.y),
         a.theta + b.theta, b.phi)

\* a - b: the pose a expressed in the frame of b
PoseSub(a, b) ==
    Pose(RotX(4 - b.theta, a.x - b.x, a.y - b.y),
         RotY(4 - b.theta, a.x - b.x, a.y - b.y),
         a.theta - b.theta + 4, a.phi)

\* PoseR2S2.distance_2d: Euclidean distance of the positions (floor)
distance_2d(a, b) == ISqrt((a.x - b.x) * (a.x - b.x) + (a.y - b.y) * (a.y - b.y))

\* abs(helper.angle_distance(a, b)): the wrapped heading difference, in
\* quarter turns (0, 1 or 2)
AbsAngleDistance(a, b) ==
    LET d == (a - b + 8) % 4 IN IF d > 2 THEN 4 - d ELSE d

\* a heading difference of q quarter turns is smaller than tol milliradians
AngLess(q, tol) == q * QuarterTurnMilliRad < tol

\* ------------------------------------------------------------------------
\* Configuration of the trajectory generators (the config dict of PTG and
\* APTG) and of the vehicle

grid_size == 400         \* config['grid_size']: d_max and distance_ref
grid_resolution == 100   \* config['grid_resolution']
n_max == 3               \* config['n_max']
alpha_max == 1           \* in quarter turns, the unit of alpha_resolution
alpha_resolution == 1
phi_max == 2             \* vehicle.phi_max, in units of phi_resolution / 2
phi_resolution == 2
VehHalfW == 60           \* half the side of the footprint squares

distance_ref == grid_size

\* the APTGs that were built and dumped to files.  All are families of
\* AlphaA_PTG, which uses the grid-indexed inverse_WS2TP of the base class.
\* K is config['K'], the direction of travel; step is |v_max| * dt, the
\* length of one straight step, and turn is sqrt(v^2 + (w r)^2) * dt of one
\* quarter-turn step.  The trajectories of alphaA_far end beyond
\* distance_ref.
aptg_files ==
    << [name |-> "alphaA_long", K |-> 1, step |-> 100, turn |-> 160],
       [name |-> "alphaA_short", K |-> 1, step |-> 50, turn |-> 70],
       [name |-> "alphaA_far", K |-> 1, step |-> 240, turn |-> 450] >>

FileIdx == 1..Len(aptg_files)

\* self.aptgs: the files loaded by Planner.load_aptgs, in list order
aptgs == SubSeq(aptg_files, 1, 2)

AptgIdx == 1..Len(aptgs)

\* np.arange(-phi_max, phi_max + phi_resolution, phi_resolution)
InitPhis == [i \in 0..((2 * phi_max) \div phi_resolution) |-> i * phi_resolution - phi_max]

PtgIdx == DOMAIN InitPhis

\* np.arange(-alpha_max, alpha_max + alpha_resolution, alpha_resolution)
idx_to_alpha == [k \in 0..((2 * alpha_max) \div alpha_resolution) |-> k * alpha_resolution - alpha_max]

KIdx == DOMAIN idx_to_alpha

\* a PTG object is named by its APTG and its position in APTG.ptgs; built
\* tells that APTG.build made it with ptg.build(), which builds the two
\* grids after the trajectories
Ptg(a, pi) == [a |-> a, pi |-> pi, built |-> TRUE]

\* the PTG made by APTG.build(skip_collision_calc=True): build_cpoints()
\* only, the two grids stay as PTG.__init__ constructed them
SkippedPtg(a, pi) == [a |-> a, pi |-> pi, built |-> FALSE]

\* the PTGs of the APTGs the planner loads
Ptgs == {Ptg(a, pi) : a \in AptgIdx, pi \in PtgIdx}

\* the PTGs of all APTGs, built either way
AllPtgs ==
    {Ptg(a, pi) : a \in FileIdx, pi \in PtgIdx}
        \cup {SkippedPtg(a, pi) : a \in FileIdx, pi \in PtgIdx}

CPoint(pose, d, alpha, n) == [pose |-> pose, d |-> d, alpha |-> alpha, n |-> n]

\* helper.wrap_to_npi_pi of a heading difference in quarter turns: -1..2
wrap_to_npi_pi(q) == IF q % 4 = 3 THEN -1 ELSE q % 4

\* vehicle.execute_motion(pose, v, w, dt) on the lattice, under the control
\* law of AlphaA_PTG (ptg.py:291-293) with delta = alpha - pose.theta: one
\* step straight ahead when delta is 0 (w = 0), else one quarter turn of
\* radius step towards alpha; the articulation angle follows the turn and
\* relaxes to 0 on a straight step
execute_motion(pose, f, delta) ==
    PoseAdd(pose,
            Pose(f.K * f.step, Sign(delta) * f.step, f.K * Sign(delta),
                 IF delta = 0 THEN pose.phi - Sign(pose.phi)
                 ELSE pose.phi + f.K * Sign(delta)))

\* the while loop of build_cpoints (ptg.py:287-305); rotation is in quarter
\* turns, so abs(rotation) < 1.95 * PI reads 100 * |rotation| < 390
RECURSIVE build_loop(_, _, _, _, _, _, _)
build_loop(f, alpha, pose, rotation, dist, n, cpoints_at_alpha) ==
    IF /\ 100 * Abs(rotation) < 390
       /\ dist < grid_size
       /\ n < n_max
       /\ Abs(pose.phi) <= phi_max
    THEN build_loop(f, alpha,
                    execute_motion(pose, f, wrap_to_npi_pi(alpha - pose.theta)),
                    rotation + f.K * Sign(wrap_to_npi_pi(alpha - pose.theta)),
                    dist + (IF wrap_to_npi_pi(alpha - pose.theta) = 0
                            THEN f.step ELSE f.turn),
                    n + 1,
                    Append(cpoints_at_alpha,
                           CPoint(execute_motion(pose, f, wrap_to_npi_pi(alpha - pose.theta)),
                                  dist + (IF wrap_to_npi_pi(alpha - pose.theta) = 0
                                          THEN f.step ELSE f.turn),
                                  alpha, n)))
    ELSE cpoints_at_alpha

\* AlphaA_PTG.build_cpoints: one trajectory per steering angle
build_cpoints(f, init_phi) ==
    [k \in KIdx |->
        build_loop(f, idx_to_alpha[k], Pose(0, 0, 0, init_phi), 0, 0, 0,
                   << CPoint(Pose(0, 0, 0, init_phi), 0, idx_to_alpha[k], 0) >>)]

\* a table that is built once and kept, as build() keeps what it builds in
\* the PTG object: the comparison makes the whole table be computed
Stored(table) == IF table = table THEN table ELSE << >>

\* PTG.cpoints of every PTG of every APTG (APTG.build)
CPointsTable ==
    With([p \in AllPtgs |-> build_cpoints(aptg_files[p.a], InitPhis[p.pi])], Stored)

cpoints(ptg) == CPointsTable[ptg]

LastCPoint(ptg, k) == cpoints(ptg)[k][Len(cpoints(ptg)[k])]

\* ------------------------------------------------------------------------
\* The two spatial indexes of a PTG (prrt.grid: CPointsGrid, ObstacleGrid)

\* Grid.x_to_ix / y_to_iy of a square grid spanning [-size, size]
x_to_ix(size, res, x) == FloorDiv(x + size, res)

\* Grid.idx_to_x / idx_to_y: the lower edge of the cell
idx_to_x(size, res, ix) == ix * res - size

cell_count(size, res) == ((2 * size) \div res) + 1

InGrid(size, res, ix, iy) ==
    /\ 0 <= ix /\ ix < cell_count(size, res)
    /\ 0 <= iy /\ iy < cell_count(size, res)

\* PTG.build_cpoints_grid with CPointsGrid.update_cell: every cell holds the
\* bounding range <<k_min, n_min, k_max, n_max>> of the (k, n) of the
\* CPoints that fall in it; a cell without CPoints is None, written << >>
build_cpoints_grid(ptg) ==
    [c \in (0..(cell_count(grid_size, grid_resolution) - 1))
           \X (0..(cell_count(grid_size, grid_resolution) - 1)) |->
        LET kn == {<<k, n>> \in KIdx \X (0..n_max) :
                     /\ n + 1 <= Len(cpoints(ptg)[k])
                     /\ x_to_ix(grid_size, grid_resolution, cpoints(ptg)[k][n + 1].pose.x) = c[1]
                     /\ x_to_ix(grid_size, grid_resolution, cpoints(ptg)[k][n + 1].pose.y) = c[2]}
        IN  IF kn = {} THEN << >>
            ELSE << SetMin({e[1] : e \in kn}), SetMin({e[2] : e \in kn}),
                    SetMax({e[1] : e \in kn}), SetMax({e[2] : e \in kn}) >>]

\* CPointsGrid(grid_size, grid_resolution) as constructed: every cell None
EmptyCPointsGrid ==
    [c \in (0..(cell_count(grid_size, grid_resolution) - 1))
           \X (0..(cell_count(grid_size, grid_resolution) - 1)) |-> << >>]

\* PTG.cpoints_grid of every PTG
CPointsGridTable ==
    With([p \in AllPtgs |-> IF p.built THEN build_cpoints_grid(p) ELSE EmptyCPointsGrid],
         Stored)

\* CPointsGrid.cell_by_idx: None outside the grid
cpoints_cell_by_idx(ptg, ix, iy) ==
    IF InGrid(grid_size, grid_resolution, ix, iy)
    THEN CPointsGridTable[ptg][<<ix, iy>>]
    ELSE << >>

\* the footprints of the vehicle at a pose: an axis-aligned square around
\* the tractor and one around the trailer, which follows one side behind.
\* A shape is <<x_min, y_min, x_max, y_max>>, which is also its bounding box.
get_tractor_vertices_at_pose(pose) ==
    << pose.x - VehHalfW, pose.y - VehHalfW, pose.x + VehHalfW, pose.y + VehHalfW >>

get_trailer_vertices_at_pose(pose) ==
    LET tx == pose.x - RotX(pose.theta, 2 * VehHalfW, 0)
        ty == pose.y - RotY(pose.theta, 2 * VehHalfW, 0)
    IN  << tx - VehHalfW, ty - VehHalfW, tx + VehHalfW, ty + VehHalfW >>

polygon_contains_point(shape, x, y) ==
    shape[1] <= x /\ x <= shape[3] /\ shape[2] <= y /\ y <= shape[4]

obstacle_grid_size == 3 * grid_size

obstacle_grid_resolution == 3 * grid_resolution

ObstacleCells ==
    (0..(cell_count(obstacle_grid_size, obstacle_grid_resolution) - 1))
        \X (0..(cell_count(obstacle_grid_size, obstacle_grid_resolution) - 1))

\* the update_cell calls of build_obstacle_grid (ptg.py:52-73) made for the
\* CPoint n of trajectory k: the cells <<ix, iy>> that receive (k, cpoint.d)
CellsHitBy(ptg, k, n) ==
    LET cpoint == cpoints(ptg)[k][n]
        shapes == {get_tractor_vertices_at_pose(cpoint.pose),
                   get_trailer_vertices_at_pose(cpoint.pose)}
        cnt    == cell_count(obstacle_grid_size, obstacle_grid_resolution)
        ix(v)  == x_to_ix(obstacle_grid_size, obstacle_grid_resolution, v)
        px(i)  == idx_to_x(obstacle_grid_size, obstacle_grid_resolution, i)
    IN  UNION { UNION { IF polygon_contains_point(shape, px(x_idx), px(y_idx))
                        THEN {<<x_idx, y_idx>>, <<x_idx - 1, y_idx>>,
                              <<x_idx, y_idx - 1>>, <<x_idx - 1, y_idx - 1>>}
                        ELSE {} :
                        x_idx \in (Max2(0, ix(shape[1])) - 1)..Min2(cnt - 1, ix(shape[3])),
                        y_idx \in (Max2(0, ix(shape[2])) - 1)..Min2(cnt - 1, ix(shape[4])) } :
                shape \in shapes }

\* PTG.build_obstacle_grid with ObstacleGrid.update_cell: a cell holds one
\* (k, d) pair per trajectory k that sweeps it, d the least cumulative
\* distance at which it does, in the order of the trajectories
build_obstacle_grid(ptg) ==
    [c \in ObstacleCells |->
        LET dk(k) == {cpoints(ptg)[k][n].d : n \in {m \in 1..Len(cpoints(ptg)[k]) :
                                                      c \in CellsHitBy(ptg, k, m)}}
            ks    == {k \in KIdx : dk(k) # {}}
            RECURSIVE pairs(_)
            pairs(k) == IF k > SetMax(KIdx) THEN << >>
                        ELSE (IF k \in ks THEN << [k |-> k, d |-> SetMin(dk(k))] >>
                              ELSE << >>) \o pairs(k + 1)
        IN  pairs(0)]

\* ObstacleGrid(3 * grid_size, 3 * grid_resolution) as constructed: every
\* cell None
EmptyObstacleGrid == [c \in ObstacleCells |-> << >>]

\* PTG.obstacle_grid of every PTG
ObstacleGridTable ==
    With([p \in AllPtgs |-> IF p.built THEN build_obstacle_grid(p) ELSE EmptyObstacleGrid],
         Stored)

\* ObstacleGrid.cell_by_pos: the list of (k, d) pairs of the cell of a
\* point; None (<< >>) outside the grid and for a cell no trajectory sweeps
obstacle_cell_by_pos(ptg, x, y) ==
    LET ix == x_to_ix(obstacle_grid_size, obstacle_grid_resolution, x)
        iy == x_to_ix(obstacle_grid_size, obstacle_grid_resolution, y)
    IN  IF InGrid(obstacle_grid_size, obstacle_grid_resolution, ix, iy)
        THEN ObstacleGridTable[ptg][<<ix, iy>>]
        ELSE << >>

\* ------------------------------------------------------------------------
\* Queries of PTG and APTG

\* APTG.ptg_at_phi: the position in APTG.ptgs selected for phi
ptg_at_phi_idx(phi) == Rint(phi + phi_max, phi_resolution)

\* the assert of ptg_at_phi passes and the Python list index is in range
\* (a negative index counts from the end of the list)
ptg_at_phi_ok(phi) ==
    /\ ptg_at_phi_idx(phi) < Cardinality(PtgIdx)
    /\ ptg_at_phi_idx(phi) >= -Cardinality(PtgIdx)

ptg_at_phi(a, phi) ==
    Ptg(a, IF ptg_at_phi_idx(phi) < 0
           THEN ptg_at_phi_idx(phi) + Cardinality(PtgIdx)
           ELSE ptg_at_phi_idx(phi))

\* PTG.alpha2idx: wrap, clamp to [-alpha_max, alpha_max], then round to the
\* index
alpha2idx(alpha) ==
    LET wrapped == wrap_to_npi_pi(alpha)
        clamped == IF Abs(wrapped) > alpha_max THEN Sign(wrapped) * alpha_max
                   ELSE wrapped
    IN  Rint(clamped + alpha_max, alpha_resolution)

\* the cell read in the pass (i, j) of the 3x3 loop of inverse_WS2TP
\* (ptg.py:131 reads cell_by_idx(ix, iy) in every pass)
WS2TPCell(ptg, i, j, ix, iy) == cpoints_cell_by_idx(ptg, ix, iy)

\* the (k, n) pairs scanned by ptg.py:144-145, in scan order
ScanOrder(ptg, k_min, k_max, n_min, n_max_) ==
    LET RECURSIVE row(_, _)
        row(k, n) == IF n >= Min2(n_max_ + 1, Len(cpoints(ptg)[k])) THEN << >>
                     ELSE << <<k, n>> >> \o row(k, n + 1)
        RECURSIVE rows(_)
        rows(k) == IF k > k_max THEN << >> ELSE row(k, n_min) \o rows(k + 1)
    IN  rows(k_min)

\* the first element of a non-empty sequence of records with the least key
RECURSIVE ArgMinFirst(_, _)
ArgMinFirst(seq, best) ==
    IF seq = << >> THEN best
    ELSE With(IF Head(seq).key < best.key THEN Head(seq) ELSE best,
              LAMBDA b : ArgMinFirst(Tail(seq), b))

\* a distance normalized by distance_ref is the fraction num / den
Normalized(num) == [num |-> num, den |-> distance_ref]

\* d * self.distance_ref of a normalized distance
TimesDistanceRef(d) == (d.num * distance_ref) \div d.den

\* ptg.py:129-138: the cells found by the 3x3 loop around (ix, iy)
CellsAround(ptg, ix, iy) ==
    {WS2TPCell(ptg, i, j, ix, iy) :
        i \in {ix - 1, ix, ix + 1}, j \in {iy - 1, iy, iy + 1}} \ {<< >>}

\* ptg.py:122-137: the union <<k_min, n_min, k_max, n_max>> of the ranges
BoundingRange(cells) ==
    << SetMin({100000} \cup {c[1] : c \in cells}),
       SetMin({100000} \cup {c[2] : c \in cells}),
       SetMax({0} \cup {c[3] : c \in cells}),
       SetMax({0} \cup {c[4] : c \in cells}) >>

SqDist(p, c) ==
    (p.x - c.pose.x) * (p.x - c.pose.x) + (p.y - c.pose.y) * (p.y - c.pose.y)

\* ptg.py:146-151: what the scan computes for the CPoint n of trajectory k
ScanEntry(p, k, c) == [key |-> SqDist(p, c), k |-> k, d |-> c.d]

ScanEntries(ptg, p, scan) ==
    [i \in 1..Len(scan) |->
        ScanEntry(p, scan[i][1], cpoints(ptg)[scan[i][1]][scan[i][2] + 1])]

\* ptg.py:140-151: the scan of the bounded (k, n) rectangle r
ScanRange(ptg, p, r) ==
    With(With(ScanOrder(ptg, r[1], r[3], r[2], r[4]),
              LAMBDA scan : ScanEntries(ptg, p, scan)),
         LAMBDA seq : ArgMinFirst(seq, [key |-> Inf, k |-> -1, d |-> -1]))

\* ptg.py:157-162: what the extrapolation computes for the last CPoint c
ExtrapolateEntry(p, c) ==
    [key |-> c.d * c.d + SqDist(p, c), k |-> alpha2idx(c.alpha),
     d |-> c.d * c.d + SqDist(p, c)]

\* ptg.py:156-162: the extrapolation over the last CPoint of every trajectory
Extrapolate(ptg, p) ==
    With([i \in 1..Cardinality(KIdx) |-> ExtrapolateEntry(p, LastCPoint(ptg, i - 1))],
         LAMBDA seq : ArgMinFirst(seq, [key |-> Inf, k |-> -1, d |-> -1]))

\* ptg.py:152-153 and 163-164: the returned triple
WS2TPResult(is_exact, best, d) == [is_exact |-> is_exact, k |-> best.k, d |-> Normalized(d)]

ExactResult(best) == WS2TPResult(TRUE, best, SqrtLen(best.d))

ExtrapolatedResult(best) == WS2TPResult(FALSE, best, ISqrt(best.d))

InverseFromCells(ptg, p, cells) ==
    IF cells # {}
    THEN With(With(BoundingRange(cells), LAMBDA r : ScanRange(ptg, p, r)), ExactResult)
    ELSE With(Extrapolate(ptg, p), ExtrapolatedResult)

\* PTG.inverse_WS2TP (the grid-indexed form of the base class), for the pose
\* p relative to the origin of the trajectories.  Result: is_exact, k, d.
inverse_WS2TP(ptg, p) ==
    With(CellsAround(ptg, x_to_ix(grid_size, grid_resolution, p.x),
                     x_to_ix(grid_size, grid_resolution, p.y)),
         LAMBDA cells : InverseFromCells(ptg, p, cells))

\* get_distance's use of the triple (ptg.py:105-108)
DistanceOf(r) == IF r.is_exact THEN TimesDistanceRef(r.d) ELSE Inf

\* PTG.get_distance
get_distance(ptg, from_pose, to_pose) ==
    With(inverse_WS2TP(ptg, PoseSub(to_pose, from_pose)), DistanceOf)

\* PTG.get_cpoint_at_d: the first CPoint of trajectory k with d >= the
\* asked distance; None is written << >>
get_cpoint_at_d(ptg, d, k) ==
    LET hits == {n \in 1..Len(cpoints(ptg)[k]) : cpoints(ptg)[k][n].d >= d}
    IN  IF hits = {} THEN << >> ELSE << cpoints(ptg)[k][SetMin(hits)] >>

\* the inner loop with the pair of k taken whatever its d
RECURSIVE ScanCellOverwrite(_, _, _)
ScanCellOverwrite(cell, k, cur) ==
    IF cell = << >> THEN cur
    ELSE IF Head(cell).k = k THEN Head(cell).d
    ELSE ScanCellOverwrite(Tail(cell), k, cur)

\* the inner loop of transform_toTP_obstacles over one cell (planner.py:201-204):
\* the first pair that lowers obs_TP[k] is taken and ends the loop
RECURSIVE ScanCell(_, _, _)
ScanCell(cell, k, cur) ==
    IF cell = << >> THEN cur
    ELSE IF Head(cell).k = k /\ Head(cell).d < cur THEN Head(cell).d
    ELSE ScanCell(Tail(cell), k, cur)

\* the loop of transform_toTP_obstacles over the obstacle points: obs_TP[k]
RECURSIVE ObsLoop(_, _, _, _, _)
ObsLoop(ptg, obstacles_ws, k, max_dist, cur) ==
    IF obstacles_ws = << >> THEN cur
    ELSE LET o == Head(obstacles_ws)
         IN  With(IF Abs(o[1]) > max_dist \/ Abs(o[2]) > max_dist THEN cur
                  ELSE ScanCell(obstacle_cell_by_pos(ptg, o[1], o[2]), k, cur),
                  LAMBDA c : ObsLoop(ptg, Tail(obstacles_ws), k, max_dist, c))

\* transform_toTP_obstacles with the loop run for every trajectory
transform_toTP_obstacles_EveryK(ptg, obstacles_ws, k, max_dist) ==
    [kk \in KIdx |-> ObsLoop(ptg, obstacles_ws, kk, max_dist, distance_ref)]

\* Planner.transform_toTP_obstacles: the list obs_TP, one entry per trajectory
transform_toTP_obstacles(ptg, obstacles_ws, k, max_dist) ==
    [kk \in KIdx |->
        IF kk = k THEN ObsLoop(ptg, obstacles_ws, k, max_dist, distance_ref)
        ELSE distance_ref]

\* ------------------------------------------------------------------------
\* Bounds of the model and the inputs of Planner.solve

MaxMaxCount == 3         \* config['max_count'] ranges over 0..MaxMaxCount
MaxCounter == 4          \* iterations of the search loop that are explored

goal_dist_tolerance == 50        \* config['goal_dist_tolerance'], 5 m
goal_ang_tolerance == 200        \* config['goal_ang_tolerance'], 0.2 rad
obs_R == 2                       \* config['obs_R']
NovelDistTenths == 1             \* the literal 0.1 of planner.py:268, in 1/10
NovelAngMilliRad == 350          \* the literal 0.35 of planner.py:268

init_pose == Pose(0, 0, 0, 0)

goal_pose == Pose(150, 50, 1, 0)

\* config['D_max']: the longest extension of one iteration
DMaxChoices == {20, 250}

\* the obstacle points of the world map, in the world frame
Worlds == { << >>, << <<350, 0>> >>, << <<50, 0>>, <<-50, 0>> >> }

\* the poses WorldGrid.get_random_pose can return (the goal among them, by
\* the goal bias)
SamplePoses ==
    { goal_pose, Pose(200, 0, 0, 0), Pose(100, 100, 0, 0), Pose(100, 0, 0, 0),
      Pose(0, 0, 0, 0), Pose(50, 0, 0, 0) }

\* WorldGrid.transform_point_cloud: the obstacle points in the frame of pose
RECURSIVE transform_point_cloud(_, _)
transform_point_cloud(points, pose) ==
    IF points = << >> THEN << >>
    ELSE << << RotX(4 - pose.theta, Head(points)[1] - pose.x, Head(points)[2] - pose.y),
               RotY(4 - pose.theta, Head(points)[1] - pose.x, Head(points)[2] - pose.y) >> >>
         \o transform_point_cloud(Tail(points), pose)

\* ------------------------------------------------------------------------
\* Node, Edge, Tree

\* a Node object; parent is the position in Tree.nodes of the parent Node
\* (1 for the first), 0 for None
Node(ptg, pose, parent) ==
    [pose |-> pose, parent |-> parent, ptg |-> ptg, edges_to_child |-> << >>, id |-> 0]

\* an Edge object; oid names the object (the iteration and the APTG that
\* created it)
Edge(oid, ptg, k, d, parent, end_pose) ==
    [oid |-> oid, ptg |-> ptg, k |-> k, d |-> d, parent |-> parent, end_pose |-> end_pose]

NoPtg == Ptg(0, 0)

\* Tree.__init__
TreeInit == [nodes |-> << Node(NoPtg, init_pose, 0) >>, edges |-> << >>]

\* the loop of Tree.get_aptg_nearest_node (mode 'TP') from position i on
RECURSIVE NearestLoop(_, _, _, _, _)
NearestLoop(nodes, i, to_pose, a, best) ==
    IF i > Len(nodes) \/ best.err THEN best
    ELSE LET node == nodes[i]
         IN  IF Abs(node.pose.x - to_pose.x) > best.d_min
                  \/ Abs(node.pose.y - to_pose.y) > best.d_min
             THEN NearestLoop(nodes, i + 1, to_pose, a, best)
             ELSE IF ~ptg_at_phi_ok(node.pose.phi)
             THEN [best EXCEPT !.err = TRUE]
             ELSE With(With(get_distance(ptg_at_phi(a, node.pose.phi), node.pose, to_pose),
                            LAMBDA d : IF d < best.d_min
                                       THEN [best EXCEPT !.d_min = d, !.node_min = i,
                                                 !.node_ptg = ptg_at_phi(a, node.pose.phi)]
                                       ELSE best),
                       LAMBDA b : NearestLoop(nodes, i + 1, to_pose, a, b))

\* Tree.get_aptg_nearest_node: node_ptg, node_min (0 for None), d_min; err
\* when ptg_at_phi failed
get_aptg_nearest_node(nodes, to_pose, a) ==
    NearestLoop(nodes, 1, to_pose, a,
                [node_ptg |-> NoPtg, node_min |-> 0, d_min |-> Inf, err |-> FALSE])

\* insert_node_and_edge with the id taken after the node was appended
insert_node_and_edge_IdAfterAppend(tree, parent, child, edge) ==
    [nodes |-> Append([tree.nodes EXCEPT ![parent].edges_to_child = Append(@, edge)],
                      [child EXCEPT !.id = Len(tree.nodes) + 1]),
     edges |-> Append(tree.edges, edge)]

\* insert_node_and_edge with the parent's edges_to_child assigned instead of
\* appended to
insert_node_and_edge_Overwrite(tree, parent, child, edge) ==
    [nodes |-> Append([tree.nodes EXCEPT ![parent].edges_to_child = << edge >>],
                      [child EXCEPT !.id = Len(tree.nodes)]),
     edges |-> Append(tree.edges, edge)]

\* insert_node_and_edge with the edge put in the root's edges_to_child
insert_node_and_edge_EdgeAtRoot(tree, parent, child, edge) ==
    [nodes |-> Append([tree.nodes EXCEPT ![1].edges_to_child = Append(@, edge)],
                      [child EXCEPT !.id = Len(tree.nodes)]),
     edges |-> Append(tree.edges, edge)]

\* Tree.insert_node_and_edge
insert_node_and_edge(tree, parent, child, edge) ==
    [nodes |-> Append([tree.nodes EXCEPT ![parent].edges_to_child = Append(@, edge)],
                      [child EXCEPT !.id = Len(tree.nodes)]),
     edges |-> Append(tree.edges, edge)]

\* ------------------------------------------------------------------------
\* Planner.solve

VARIABLES
    config,                 \* self.config: max_count and D_max
    world,                  \* self.world: the obstacle points of the map
    tree,                   \* self.tree: nodes and _edges
    pc,                     \* position in solve: "loop", "eval", "after",
                            \* "returned", "raised"
    counter,                \* the local counter
    rand_pose,              \* the local rand_pose of the iteration
    aptg_i,                 \* position of the for loop over self.aptgs
    candidate_new_nodes,    \* the SortedDict of the iteration: d_new -> Edge
    is_acceptable_goal,     \* the local is_acceptable_goal: << >> while
                            \* unbound, else <<TRUE>> or <<FALSE>>
    min_goal_dist_yet,      \* the local min_goal_dist_yet
    result,                 \* planner_success, total_number_of_iterations,
                            \* total_number_of_nodes, best_distance_to_target
    accepted,               \* history: the candidates of the iteration that
                            \* reached planner.py:273, in order, each with
                            \* its APTG position and its d_free
    sampled,                \* history: number of get_random_pose calls
    edge_d_free,            \* history: d_free of every committed edge
    query                   \* the last call of a query of PTG, APTG or
                            \* Planner made on its own, outside solve: its
                            \* name, its arguments and what it gave

vars == << config, world, tree, pc, counter, rand_pose, aptg_i,
           candidate_new_nodes, is_acceptable_goal, min_goal_dist_yet, result,
           accepted, sampled, edge_d_free, query >>

solution_found == FALSE

\* goal_dist < goal_dist_tolerance and goal_ang < goal_ang_tolerance
IsAcceptableGoal(pose) ==
    /\ distance_2d(pose, goal_pose) < goal_dist_tolerance
    /\ AngLess(AbsAngleDistance(pose.theta, goal_pose.theta), goal_ang_tolerance)

\* the test of planner.py:252 left out
PathIsFreeUnchecked(d_free, d_new) == TRUE

\* planner.py:252: the candidate does not collide before d_new
PathIsFree(d_free, d_new) == d_free >= d_new

\* planner.py:268: new_nearest_dist >= 0.1 or new_nearest_ang >= 0.35
IsNovel(new_nearest_dist, new_nearest_ang) ==
    \/ new_nearest_dist * 10 >= NovelDistTenths * Scale
    \/ new_nearest_ang * QuarterTurnMilliRad >= NovelAngMilliRad

\* planner.py:266-268: accept_this_node from the nearest node nn of the
\* candidate pose
AcceptFromNearest(nodes, new_pose, nn) ==
    IF nn.node_min = 0 THEN TRUE
    ELSE IsNovel(nn.d_min, AbsAngleDistance(new_pose.theta, nodes[nn.node_min].pose.theta))

\* planner.py:257-273: the candidate with end pose new_pose is tested and,
\* when accepted, put in the collection
Candidate(nodes, a, edge, d_free, goal, nn) ==
    IF ~goal /\ nn.err THEN [outcome |-> "raise", why |-> "ptg_at_phi"]
    ELSE IF goal \/ AcceptFromNearest(nodes, edge.end_pose, nn)
    THEN [outcome |-> "candidate", goal |-> goal, edge |-> edge, d_free |-> d_free]
    ELSE [outcome |-> "rejected", goal |-> goal]

\* planner.py:254-256: the end pose of the extension along trajectory k;
\* cpoint.pose of None raises AttributeError
Extend(nodes, a, oid, near, k_rand, d_new, d_free, cpoint) ==
    IF cpoint = << >> THEN [outcome |-> "raise", why |-> "cpoint"]
    ELSE With(get_aptg_nearest_node(nodes,
                  PoseAdd(nodes[near.node_min].pose, cpoint[1].pose), a),
              LAMBDA nn :
                  Candidate(nodes, a,
                      Edge(oid, near.node_ptg, k_rand, d_new, near.node_min,
                           PoseAdd(nodes[near.node_min].pose, cpoint[1].pose)),
                      d_free,
                      IsAcceptableGoal(PoseAdd(nodes[near.node_min].pose, cpoint[1].pose)),
                      nn))

\* the test of planner.py:248 left out
TooShortUnchecked(ptg, k_rand, d_new) == FALSE

\* planner.py:248: ptg.cpoints[k_rand][-1].d < d_new
TooShort(ptg, k_rand, d_new) == LastCPoint(ptg, k_rand).d < d_new

\* planner.py:248-252: the two tests of the extension of length d_new
Feasible(nodes, a, oid, near, k_rand, d_new, d_free) ==
    IF TooShort(near.node_ptg, k_rand, d_new) THEN [outcome |-> "too_short"]
    ELSE IF ~PathIsFree(d_free, d_new)
    THEN [outcome |-> "not_free", d_free |-> d_free, d_new |-> d_new]
    ELSE With(get_cpoint_at_d(near.node_ptg, d_new, k_rand),
              LAMBDA cpoint : Extend(nodes, a, oid, near, k_rand, d_new, d_free, cpoint))

\* planner.py:239-242: d_free = obstacles_TP[k_rand]
DFree(ptg, ptg_nearest_pose, k_rand) ==
    With(transform_point_cloud(world, ptg_nearest_pose),
         LAMBDA obstacles_rel :
             transform_toTP_obstacles(ptg, obstacles_rel, k_rand,
                                      obs_R * distance_ref)[k_rand])

\* planner.py:236-243: d_new and d_free from the inverse mapping inv
Steer(nodes, a, oid, near, inv) ==
    With(DFree(near.node_ptg, nodes[near.node_min].pose, inv.k),
         LAMBDA d_free :
             Feasible(nodes, a, oid, near, inv.k,
                      Min2(Min2(config.D_max, distance_ref), TimesDistanceRef(inv.d)),
                      d_free))

\* planner.py:231-237: from the nearest node of the APTG
FromNearest(nodes, a, oid, near) ==
    IF near.err THEN [outcome |-> "raise", why |-> "ptg_at_phi"]
    ELSE IF near.node_min = 0 THEN [outcome |-> "no_nearest"]
    ELSE With(inverse_WS2TP(near.node_ptg, PoseSub(rand_pose, nodes[near.node_min].pose)),
              LAMBDA inv : Steer(nodes, a, oid, near, inv))

\* the body of the for loop over self.aptgs (planner.py:230-278) for the
\* APTG at position a: what it did, and the Edge it made if it made one
EvaluateAptg(nodes, a, oid) ==
    With(get_aptg_nearest_node(nodes, rand_pose, a),
         LAMBDA near : FromNearest(nodes, a, oid, near))

\* an update that keeps the value a key already has
SortedDictUpdateKeepFirst(dict, key, value) ==
    [x \in (DOMAIN dict) \cup {key} |->
        IF x \in DOMAIN dict THEN dict[x] ELSE value]

\* SortedDict.update({d_new: new_edge})
SortedDictUpdate(dict, key, value) ==
    [x \in (DOMAIN dict) \cup {key} |-> IF x = key THEN value ELSE dict[x]]

\* SortedDict.peekitem(-1)[1]: the value of the greatest key
PeekLast(dict) == dict[SetMax(DOMAIN dict)]

EmptyDict == [x \in {} |-> 0]

NoResult ==
    [planner_success |-> FALSE, total_number_of_iterations |-> 0,
     total_number_of_nodes |-> 0, best_distance_to_target |-> Inf]

NoQuery == [op |-> "none"]

\* the state at planner.py:224, after setup and the locals of solve
Init ==
    /\ config \in [max_count : 0..MaxMaxCount, D_max : DMaxChoices]
    /\ world \in Worlds
    /\ tree = TreeInit
    /\ pc = "loop"
    /\ counter = 0
    /\ rand_pose = init_pose
    /\ aptg_i = 1
    /\ candidate_new_nodes = EmptyDict
    /\ is_acceptable_goal = << >>
    /\ min_goal_dist_yet = Inf
    /\ result = NoResult
    /\ accepted = << >>
    /\ sampled = 0
    /\ edge_d_free = << >>
    /\ query = NoQuery

\* the loop condition with <= for <
LoopConditionInclusive == ~solution_found /\ Len(tree.nodes) <= config.max_count

\* planner.py:224: the condition of the while loop
LoopCondition == ~solution_found /\ Len(tree.nodes) < config.max_count

\* planner.py:224-228: the loop is entered and a target pose is sampled.
\* With saturate the counter stays at MaxCounter instead of stopping the
\* exploration there.
Sample(saturate) ==
    /\ pc = "loop"
    /\ LoopCondition
    /\ saturate \/ counter < MaxCounter
    /\ counter' = IF saturate /\ counter >= MaxCounter THEN counter ELSE counter + 1
    /\ sampled' = IF saturate /\ sampled >= MaxCounter THEN sampled ELSE sampled + 1
    /\ \E p \in SamplePoses : rand_pose' = p
    /\ candidate_new_nodes' = EmptyDict
    /\ accepted' = << >>
    /\ aptg_i' = 1
    /\ pc' = "eval"
    /\ UNCHANGED << query, config, world, tree, is_acceptable_goal, min_goal_dist_yet,
                    result, edge_d_free >>

\* planner.py:224: the loop condition fails
LoopExit ==
    /\ pc = "loop"
    /\ ~LoopCondition
    /\ pc' = "after"
    /\ UNCHANGED << query, config, world, tree, counter, rand_pose, aptg_i,
                    candidate_new_nodes, is_acceptable_goal, min_goal_dist_yet,
                    result, accepted, sampled, edge_d_free >>

\* a for loop that inserts each accepted candidate as soon as it is accepted
EvalEffectEager(r) ==
    /\ pc' = IF r.outcome = "raise" THEN "raised" ELSE "eval"
    /\ tree' = IF r.outcome = "candidate"
               THEN insert_node_and_edge(tree, r.edge.parent,
                        Node(r.edge.ptg, r.edge.end_pose, r.edge.parent), r.edge)
               ELSE tree
    /\ is_acceptable_goal' =
         IF r.outcome \in {"candidate", "rejected"} THEN << r.goal >>
         ELSE is_acceptable_goal
    /\ candidate_new_nodes' =
         IF r.outcome = "candidate"
         THEN SortedDictUpdate(candidate_new_nodes, r.edge.d, r.edge)
         ELSE candidate_new_nodes
    /\ accepted' =
         IF r.outcome = "candidate"
         THEN Append(accepted, [a |-> aptg_i, edge |-> r.edge, d_free |-> r.d_free])
         ELSE accepted

\* the effect on the locals of one pass of the for loop whose outcome is r
EvalEffect(r) ==
    /\ pc' = IF r.outcome = "raise" THEN "raised" ELSE "eval"
    /\ tree' = tree
    /\ is_acceptable_goal' =
         IF r.outcome \in {"candidate", "rejected"} THEN << r.goal >>
         ELSE is_acceptable_goal
    /\ candidate_new_nodes' =
         IF r.outcome = "candidate"
         THEN SortedDictUpdate(candidate_new_nodes, r.edge.d, r.edge)
         ELSE candidate_new_nodes
    /\ accepted' =
         IF r.outcome = "candidate"
         THEN Append(accepted, [a |-> aptg_i, edge |-> r.edge, d_free |-> r.d_free])
         ELSE accepted

\* planner.py:229-278: one pass of the for loop over self.aptgs
EvalAptg ==
    /\ pc = "eval"
    /\ aptg_i <= Len(aptgs)
    /\ \E r \in {EvaluateAptg(tree.nodes, aptg_i, << counter, aptg_i >>)} : EvalEffect(r)
    /\ aptg_i' = aptg_i + 1
    /\ UNCHANGED << query, config, world, counter, rand_pose, min_goal_dist_yet,
                    result, sampled, edge_d_free >>

\* the goal test of planner.py:284-288 left out: the local keeps the value
\* the last evaluated candidate gave it
CommittedIsAcceptableGoalStale(best_edge, prev) == prev

\* planner.py:284-288: is_acceptable_goal of the committed edge; prev is the
\* value the local holds from the evaluation of the candidates
CommittedIsAcceptableGoal(best_edge, prev) == IsAcceptableGoal(best_edge.end_pose)

\* d_free recorded for the accepted candidate that is the Edge object e
DFreeOf(e) ==
    LET i == CHOOSE j \in 1..Len(accepted) : accepted[j].edge.oid = e.oid
    IN  accepted[i].d_free

\* planner.py:279-295: the end of an iteration, the commit of the best
\* candidate if there is one, and the goal test
Commit ==
    /\ pc = "eval"
    /\ aptg_i > Len(aptgs)
    /\ IF DOMAIN candidate_new_nodes # {}
       THEN LET best_edge == PeekLast(candidate_new_nodes)
                new_state_node == Node(best_edge.ptg, best_edge.end_pose, best_edge.parent)
                goal_dist == distance_2d(best_edge.end_pose, goal_pose)
                goal == CommittedIsAcceptableGoal(best_edge, is_acceptable_goal[1])
            IN  /\ tree' = insert_node_and_edge(tree, best_edge.parent, new_state_node,
                                                best_edge)
                /\ is_acceptable_goal' = << goal >>
                /\ min_goal_dist_yet' = Min2(goal_dist, min_goal_dist_yet)
                /\ edge_d_free' = Append(edge_d_free, DFreeOf(best_edge))
                /\ pc' = IF goal THEN "after" ELSE "loop"
       ELSE /\ pc' = "loop"
            /\ UNCHANGED << tree, is_acceptable_goal, min_goal_dist_yet, edge_d_free >>
    /\ UNCHANGED << query, config, world, counter, rand_pose, aptg_i, candidate_new_nodes,
                    result, accepted, sampled >>

\* planner.py:300-321: the result fields set before solve returns
SolveResult(success) ==
    [planner_success |-> success, total_number_of_iterations |-> counter,
     total_number_of_nodes |-> Len(tree.nodes),
     best_distance_to_target |-> min_goal_dist_yet]

\* planner.py:296-328: after the loop.  Reading is_acceptable_goal while it
\* is unbound raises UnboundLocalError.
Finish ==
    /\ pc = "after"
    /\ IF is_acceptable_goal = << >>
       THEN pc' = "raised" /\ UNCHANGED result
       ELSE pc' = "returned" /\ result' = SolveResult(is_acceptable_goal[1])
    /\ UNCHANGED << query, config, world, tree, counter, rand_pose, aptg_i,
                    candidate_new_nodes, is_acceptable_goal, min_goal_dist_yet,
                    accepted, sampled, edge_d_free >>

Next == Sample(FALSE) \/ LoopExit \/ EvalAptg \/ Commit \/ Finish

Spec == Init /\ [][Next]_vars

\* the same program with the counter saturating, so that a run of the loop
\* that never ends is a cycle of the state graph; the program is a single
\* thread that keeps taking steps while it has one to take
NextLive == Sample(TRUE) \/ LoopExit \/ EvalAptg \/ Commit \/ Finish

LiveSpec == Init /\ [][NextLive]_vars /\ WF_vars(NextLive)

\* ------------------------------------------------------------------------
\* The queries called on their own: a Planner is constructed and its APTG
\* files exist, solve is not running, and a caller applies one query to
\* arguments of its choice.  The queries change no state of the program, so
\* one call per run covers every call.

MaxAbsPhi == 10          \* articulation angles asked of ptg_at_phi
MaxQueryCoord == 7       \* target positions asked of inverse_WS2TP, in
                         \* half cells of the point index
MaxObstacles == 2        \* length of the obstacle lists
MaxDNew == 50            \* extension lengths asked, in metres

PhiInputs == (-MaxAbsPhi)..MaxAbsPhi

QueryPoses ==
    {Pose(cx * (grid_resolution \div 2), cy * (grid_resolution \div 2), 0, 0) :
        cx \in (-MaxQueryCoord)..MaxQueryCoord, cy \in (-MaxQueryCoord)..MaxQueryCoord}

\* obstacle points relative to the query pose
ObstaclePoints == { <<50, 0>>, <<350, 0>>, <<350, 350>>, <<350, -50>>, <<400, 0>> }

ObstacleLists == UNION {[1..n -> ObstaclePoints] : n \in 0..MaxObstacles}

\* the values of max_dist: obs_R * distance_ref as solve passes it, and a
\* radius that one of the points lies exactly on
MaxDists == {obs_R * distance_ref, 350}

DNewInputs == {Scale * i : i \in 0..MaxDNew}

Range(seq) == {seq[i] : i \in DOMAIN seq}

QueryInit ==
    /\ config = [max_count |-> 0, D_max |-> 20]
    /\ world = << >>
    /\ tree = TreeInit
    /\ pc = "query"
    /\ counter = 0
    /\ rand_pose = init_pose
    /\ aptg_i = 1
    /\ candidate_new_nodes = EmptyDict
    /\ is_acceptable_goal = << >>
    /\ min_goal_dist_yet = Inf
    /\ result = NoResult
    /\ accepted = << >>
    /\ sampled = 0
    /\ edge_d_free = << >>
    /\ query = NoQuery

\* the state of solve, which a query leaves alone
SolveVars == << config, world, tree, counter, rand_pose, aptg_i,
                candidate_new_nodes, is_acceptable_goal, min_goal_dist_yet,
                result, accepted, sampled, edge_d_free >>

\* APTG.ptg_at_phi(phi) of the APTG a: the assert or the list index raises,
\* or the PTG at the index is returned
QueryPtgAtPhi ==
    /\ pc = "query"
    /\ \E a \in AptgIdx, phi \in PhiInputs :
          query' = [op |-> "ptg_at_phi", a |-> a, phi |-> phi,
                    idx |-> ptg_at_phi_idx(phi),
                    outcome |-> IF ptg_at_phi_ok(phi) THEN "returned" ELSE "raised",
                    ptg |-> IF ptg_at_phi_ok(phi) THEN ptg_at_phi(a, phi) ELSE NoPtg]
    /\ pc' = "queried"
    /\ UNCHANGED SolveVars

\* PTG.inverse_WS2TP(p) and PTG.get_distance(origin, p) of a PTG
QueryInverseWS2TP ==
    /\ pc = "query"
    /\ \E ptg \in AllPtgs, p \in QueryPoses :
          \E r \in {inverse_WS2TP(ptg, p)} :
              query' = [op |-> "inverse_WS2TP", ptg |-> ptg, p |-> p, out |-> r,
                        distance |-> DistanceOf(r), outcome |-> "returned"]
    /\ pc' = "queried"
    /\ UNCHANGED SolveVars

\* Planner.transform_toTP_obstacles(ptg, A, k, max_dist) and the same call
\* for a list B that holds every point of A
QueryTransformObstacles ==
    /\ pc = "query"
    /\ \E ptg \in AllPtgs, k \in KIdx, max_dist \in MaxDists :
          \E A \in ObstacleLists :
              \E B \in {L \in ObstacleLists : Range(A) \subseteq Range(L)} :
                  query' = [op |-> "transform_toTP_obstacles", ptg |-> ptg, k |-> k,
                            max_dist |-> max_dist, A |-> A, B |-> B,
                            outA |-> transform_toTP_obstacles(ptg, A, k, max_dist),
                            outB |-> transform_toTP_obstacles(ptg, B, k, max_dist),
                            outcome |-> "returned"]
    /\ pc' = "queried"
    /\ UNCHANGED SolveVars

\* planner.py:248-273 for an extension of length d_new along trajectory k of
\* the PTG ptg from the root of a tree that holds only the root
QueryExtend ==
    /\ pc = "query"
    /\ \E ptg \in Ptgs, k \in KIdx, d_new \in DNewInputs, d_free \in {0, distance_ref} :
          \E r \in {Feasible(<< Node(NoPtg, Pose(0, 0, 0, InitPhis[ptg.pi]), 0) >>,
                              ptg.a, << 0, ptg.a >>,
                              [node_ptg |-> ptg, node_min |-> 1, d_min |-> 0, err |-> FALSE],
                              k, d_new, d_free)} :
              query' = [op |-> "extend", ptg |-> ptg, k |-> k, d_new |-> d_new,
                        d_free |-> d_free, out |-> r]
    /\ pc' = "queried"
    /\ UNCHANGED SolveVars

QueryNext ==
    QueryPtgAtPhi \/ QueryInverseWS2TP \/ QueryTransformObstacles \/ QueryExtend

QuerySpec == QueryInit /\ [][QueryNext]_vars

\* ------------------------------------------------------------------------
\* Properties of Planner.solve

Terminated == pc \in {"returned", "raised"}

LastNode == tree.nodes[Len(tree.nodes)]

\* node i reaches the root in at most fuel parent links
RECURSIVE ReachesRoot(_, _, _)
ReachesRoot(nodes, i, fuel) ==
    IF i = 1 THEN TRUE
    ELSE IF fuel = 0 \/ i \notin 1..Len(nodes) THEN FALSE
    ELSE ReachesRoot(nodes, nodes[i].parent, fuel - 1)

\* C1: after every commit the tree is well formed: the root nodes[0] is the
\* only node without a parent, every other node has a parent that is a node
\* of the tree with a strictly smaller id, the parent links of every node
\* lead to the root, and the node at position i has id i.
TreeWellFormed ==
    /\ Len(tree.nodes) >= 1
    /\ tree.nodes[1].parent = 0
    /\ \A i \in 1..Len(tree.nodes) :
          /\ tree.nodes[i].id = i - 1
          /\ i > 1 => /\ tree.nodes[i].parent \in 1..Len(tree.nodes)
                      /\ tree.nodes[tree.nodes[i].parent].id < tree.nodes[i].id
          /\ ReachesRoot(tree.nodes, i, Len(tree.nodes))

\* two commits were made and the second node hangs below the first
ChainOfTwoCommits ==
    /\ Len(tree.nodes) >= 3
    /\ \E i \in 2..Len(tree.nodes) : tree.nodes[i].parent > 1

\* C2: every committed edge has d_free >= edge.d for the d_free computed in
\* its iteration, and every candidate in the collection of the iteration was
\* inserted with d_free >= d_new.
CommittedEdgesCollisionFree ==
    /\ Len(edge_d_free) = Len(tree.edges)
    /\ \A i \in 1..Len(tree.edges) : edge_d_free[i] >= tree.edges[i].d
    /\ \A j \in 1..Len(accepted) : accepted[j].d_free >= accepted[j].edge.d
    /\ \A key \in DOMAIN candidate_new_nodes :
          \E j \in 1..Len(accepted) :
              /\ accepted[j].edge = candidate_new_nodes[key]
              /\ accepted[j].edge.d = key

\* an edge of positive length was committed along a trajectory on which an
\* obstacle of the map limits the free distance
EdgeCommittedBelowObstacle ==
    \E i \in 1..Len(tree.edges) :
        /\ tree.edges[i].d > 0
        /\ edge_d_free[i] < distance_ref

\* C3: the search loop of solve always ends: every run reaches the code
\* after the loop (or leaves solve), whatever the world and the samples.
SolveLoopTerminates == <>(pc \in {"after", "returned", "raised"})

\* C4: when solve returns, planner_success is True iff the last committed
\* node satisfies the goal tolerance.
SuccessIffLastNodeAtGoal ==
    pc = "returned" => (result.planner_success <=> IsAcceptableGoal(LastNode.pose))

\* solve returned after an iteration whose last evaluated candidate
\* satisfied the goal tolerance while the committed one does not
ReturnedAfterGoalCandidateLost ==
    /\ pc = "returned"
    /\ Len(accepted) = 2
    /\ IsAcceptableGoal(accepted[2].edge.end_pose)
    /\ ~IsAcceptableGoal(accepted[1].edge.end_pose)
    /\ tree.edges[Len(tree.edges)] = accepted[1].edge

\* C5: whenever solve ends without the goal tolerance reached it has
\* returned normally, with planner_success False and the iteration and
\* node counters set; it never raises.
NonConvergenceReturns ==
    (Terminated /\ ~IsAcceptableGoal(LastNode.pose)) =>
        /\ pc = "returned"
        /\ result.planner_success = FALSE
        /\ result.total_number_of_iterations = sampled
        /\ result.total_number_of_nodes = Len(tree.nodes)

\* the for loop over self.aptgs is done and the iteration is about to end
AtCommit == pc = "eval" /\ aptg_i > Len(aptgs)

LastEdge(t) == t.edges[Len(t.edges)]

\* the accepted candidate j of the iteration is the one C6 names: none has
\* a greater d_new, and none with the same d_new comes from a later APTG
IsGreatestLast(j) ==
    \A i \in 1..Len(accepted) :
        /\ accepted[i].edge.d <= accepted[j].edge.d
        /\ accepted[i].edge.d = accepted[j].edge.d => accepted[i].a <= accepted[j].a

\* C6: an iteration with at least one accepted candidate commits the
\* accepted candidate with the greatest d_new, and among several with that
\* d_new the one of the APTG that comes last in self.aptgs.
CommitsGreatestCandidate ==
    [][(AtCommit /\ accepted # << >>) =>
          /\ Len(tree'.edges) = Len(tree.edges) + 1
          /\ \E j \in 1..Len(accepted) :
                /\ IsGreatestLast(j)
                /\ LastEdge(tree') = accepted[j].edge
                /\ tree'.nodes[Len(tree'.nodes)].pose = accepted[j].edge.end_pose]_vars

\* two APTGs gave accepted candidates of the same d_new that end in
\* different poses, and the one of the later APTG was committed
TieCommittedToLastAptg ==
    /\ pc \in {"loop", "after"}
    /\ Len(accepted) = 2
    /\ accepted[1].edge.d = accepted[2].edge.d
    /\ accepted[1].edge.end_pose # accepted[2].edge.end_pose
    /\ Len(tree.edges) >= 1
    /\ LastEdge(tree) = accepted[2].edge

\* C7: an iteration adds at most one node and one edge: the tree does not
\* change while the APTGs are evaluated, nor when a pose is sampled, and the
\* end of the iteration adds exactly one node and one edge when there is an
\* accepted candidate and none otherwise.
OneCommitPerIteration ==
    [][/\ ~AtCommit => tree' = tree
       /\ AtCommit =>
            /\ Len(tree'.nodes) =
                 Len(tree.nodes) + (IF accepted # << >> THEN 1 ELSE 0)
            /\ Len(tree'.edges) =
                 Len(tree.edges) + (IF accepted # << >> THEN 1 ELSE 0)]_vars

\* one iteration committed a node and a later one, with two APTGs
\* evaluated, ended without an accepted candidate and left the tree as it was
IterationWithoutCommitAfterOne ==
    /\ pc = "loop"
    /\ sampled >= 2
    /\ Len(tree.nodes) = 2
    /\ accepted = << >>

\* C8: the tree is append-only: a step keeps Tree.nodes and Tree._edges as
\* prefixes, leaves pose, parent, id of every node and every edge as they
\* were, and changes an existing node only by appending the new edge to the
\* edges_to_child of its parent.
TreeAppendOnly ==
    [][/\ Len(tree'.nodes) >= Len(tree.nodes)
       /\ Len(tree'.edges) >= Len(tree.edges)
       /\ \A i \in 1..Len(tree.edges) : tree'.edges[i] = tree.edges[i]
       /\ \A i \in 1..Len(tree.nodes) :
            /\ tree'.nodes[i].pose = tree.nodes[i].pose
            /\ tree'.nodes[i].parent = tree.nodes[i].parent
            /\ tree'.nodes[i].id = tree.nodes[i].id
            /\ tree'.nodes[i].ptg = tree.nodes[i].ptg
            /\ \/ tree'.nodes[i].edges_to_child = tree.nodes[i].edges_to_child
               \/ /\ Len(tree'.edges) = Len(tree.edges) + 1
                  /\ LastEdge(tree').parent = i
                  /\ tree'.nodes[i].edges_to_child =
                       Append(tree.nodes[i].edges_to_child, LastEdge(tree'))]_vars

\* a node that already had an outgoing edge became the parent of another
NodeWithTwoChildren ==
    \E i \in 1..Len(tree.nodes) : Len(tree.nodes[i].edges_to_child) >= 2

\* C9: for max_count >= 1 the tree never has more than max_count nodes, and
\* when solve has returned total_number_of_nodes is len(tree.nodes) and
\* total_number_of_iterations is the number of sampled poses, which is at
\* least the number of committed nodes.
NodeCapAndCounters ==
    config.max_count >= 1 =>
        /\ Len(tree.nodes) <= config.max_count
        /\ pc = "returned" =>
              /\ result.total_number_of_nodes = Len(tree.nodes)
              /\ result.total_number_of_iterations = sampled
              /\ sampled >= Len(tree.nodes) - 1

\* solve returned with the tree at the cap after more iterations than commits
ReturnedAtCapWithIdleIteration ==
    /\ pc = "returned"
    /\ Len(tree.nodes) = config.max_count
    /\ sampled > Len(tree.nodes) - 1
    /\ result.total_number_of_iterations = sampled

\* the distance of pose from node i under the PTG of APTG a at the node
DistFromNode(nodes, i, pose, a) ==
    get_distance(ptg_at_phi(a, nodes[i].pose.phi), nodes[i].pose, pose)

\* pose is novel in nodes under APTG a: no node has a finite distance to it,
\* or the nearest one (the first of the nearest) is at distance >= 0.1 or at
\* heading difference >= 0.35 rad
NovelIn(nodes, pose, a) ==
    LET dist == [i \in 1..Len(nodes) |-> DistFromNode(nodes, i, pose, a)]
        finite == {i \in 1..Len(nodes) : dist[i] < Inf}
        nearest == CHOOSE i \in finite :
                       \A j \in finite : dist[i] < dist[j] \/ (dist[i] = dist[j] /\ i <= j)
    IN  \/ finite = {}
        \/ dist[nearest] * 10 >= NovelDistTenths * Scale
        \/ AbsAngleDistance(pose.theta, nodes[nearest].pose.theta) * QuarterTurnMilliRad
             >= NovelAngMilliRad

\* C10: a committed node whose pose does not satisfy the goal tolerance was
\* novel in the tree it was added to, under the APTG of its edge; and no
\* evaluated end pose that satisfies the goal tolerance is rejected.
CommittedNodesNovel ==
    [][/\ Len(tree'.nodes) > Len(tree.nodes) =>
            \/ IsAcceptableGoal(tree'.nodes[Len(tree'.nodes)].pose)
            \/ NovelIn(tree.nodes, tree'.nodes[Len(tree'.nodes)].pose,
                       tree'.nodes[Len(tree'.nodes)].ptg.a)
       /\ (pc = "eval" /\ aptg_i <= Len(aptgs)) =>
            \A r \in {EvaluateAptg(tree.nodes, aptg_i, << counter, aptg_i >>)} :
                r.outcome = "rejected" => ~r.goal]_vars

\* a node that is not at the goal was committed to a tree that had a node
\* at a finite distance from it under the APTG of its edge
NonGoalNodeCommittedNearTree ==
    /\ Len(tree.nodes) >= 2
    /\ ~IsAcceptableGoal(LastNode.pose)
    /\ \E i \in 1..(Len(tree.nodes) - 1) :
          DistFromNode(tree.nodes, i, LastNode.pose, LastNode.ptg.a) < Inf

\* ------------------------------------------------------------------------
\* Properties of the queries

\* C11: transform_toTP_obstacles is monotonic in the obstacle set: for the
\* same PTG, k and max_dist, the value at index k for a list B that holds
\* every point of the list A is at most the value at index k for A.
TransformObstaclesMonotonic ==
    query.op = "transform_toTP_obstacles" =>
        query.outB[query.k] <= query.outA[query.k]

\* a point added to a list that already limits trajectory k lowers the
\* value at k further
AddedObstacleLowersFreeDistance ==
    /\ query.op = "transform_toTP_obstacles"
    /\ query.outA[query.k] < distance_ref
    /\ query.outB[query.k] < query.outA[query.k]

\* the d of the (k', d) pairs with k' = k in the obstacle-index cells of the
\* points of obstacles_ws that lie within max_dist on both axes
PairsOfK(ptg, obstacles_ws, k, max_dist) ==
    UNION { {obstacle_cell_by_pos(ptg, o[1], o[2])[i].d :
                i \in {j \in DOMAIN obstacle_cell_by_pos(ptg, o[1], o[2]) :
                          obstacle_cell_by_pos(ptg, o[1], o[2])[j].k = k}} :
            o \in {q \in Range(obstacles_ws) :
                      Abs(q[1]) <= max_dist /\ Abs(q[2]) <= max_dist} }

\* C14: transform_toTP_obstacles returns at index k the smallest d of the
\* pairs of k in the cells of the obstacle points within max_dist, and
\* distance_ref when there is no such pair; every other entry is
\* distance_ref.
TransformObstaclesIsSmallestPair ==
    query.op = "transform_toTP_obstacles" =>
        LET pairs == PairsOfK(query.ptg, query.A, query.k, query.max_dist)
        IN  \A kk \in KIdx :
                query.outA[kk] =
                    IF kk # query.k \/ pairs = {} THEN distance_ref ELSE SetMin(pairs)

\* C14 as amended: the value at index k is the smallest d of those pairs
\* when that is below distance_ref, and distance_ref otherwise (also when
\* every pair of k has a d above distance_ref); every other entry is
\* distance_ref.
TransformObstaclesIsCappedSmallestPair ==
    query.op = "transform_toTP_obstacles" =>
        LET pairs == PairsOfK(query.ptg, query.A, query.k, query.max_dist)
        IN  \A kk \in KIdx :
                query.outA[kk] =
                    IF kk # query.k THEN distance_ref
                    ELSE SetMin(pairs \cup {distance_ref})

\* two points in cells with different d for k, both below distance_ref and
\* the first with the larger, and the smaller d returned
SmallestOfTwoPairsReturned ==
    /\ query.op = "transform_toTP_obstacles"
    /\ Cardinality(PairsOfK(query.ptg, query.A, query.k, query.max_dist)) >= 2
    /\ query.outA[query.k] = SetMin(PairsOfK(query.ptg, query.A, query.k, query.max_dist))
    /\ PairsOfK(query.ptg, << query.A[1] >>, query.k, query.max_dist)
          = {SetMax(PairsOfK(query.ptg, query.A, query.k, query.max_dist))}
    /\ SetMax(PairsOfK(query.ptg, query.A, query.k, query.max_dist)) < distance_ref

\* C12: ptg_at_phi aborts for every phi whose rounded index is outside
\* 0..len(ptgs)-1, negative or too large; it returns no PTG then.
PtgAtPhiAbortsOutOfRange ==
    (query.op = "ptg_at_phi" /\ query.idx \notin 0..(Cardinality(PtgIdx) - 1)) =>
        query.outcome = "raised"

\* an index of len(ptgs) or more made ptg_at_phi abort
PtgAtPhiAbortedAboveRange ==
    /\ query.op = "ptg_at_phi"
    /\ query.idx >= Cardinality(PtgIdx)
    /\ query.outcome = "raised"

\* C13: a query that needs an index that was not built aborts: for a PTG
\* made with build_cpoints() only, inverse_WS2TP and the obstacle lookup
\* raise instead of returning a result.
UnbuiltIndexQueryAborts ==
    (/\ query.op \in {"inverse_WS2TP", "transform_toTP_obstacles"}
     /\ ~query.ptg.built) =>
        query.outcome = "raised"

\* the cell of the point index that holds the position of p
OwnCell(ptg, p) ==
    cpoints_cell_by_idx(ptg, x_to_ix(grid_size, grid_resolution, p.x),
                        x_to_ix(grid_size, grid_resolution, p.y))

\* the cells of the 3x3 neighbourhood of the cell of p that hold points
Neighbourhood(ptg, p) ==
    {cpoints_cell_by_idx(ptg, i, j) :
        i \in (x_to_ix(grid_size, grid_resolution, p.x) - 1)
                 ..(x_to_ix(grid_size, grid_resolution, p.x) + 1),
        j \in (x_to_ix(grid_size, grid_resolution, p.y) - 1)
                 ..(x_to_ix(grid_size, grid_resolution, p.y) + 1)} \ {<< >>}

\* C15: inverse_WS2TP unions the (k, n) ranges of the nine cells around the
\* cell of the target: the result is exact iff one of the nine cells holds a
\* point, also when the target's own cell holds none, and then k is the one
\* of the nearest CPoint of the unioned rectangle; the extrapolation is
\* used only when all nine cells are empty.
InverseUnionsNeighbourhood ==
    query.op = "inverse_WS2TP" =>
        /\ query.out.is_exact <=> Neighbourhood(query.ptg, query.p) # {}
        /\ Neighbourhood(query.ptg, query.p) # {} =>
              query.out.k =
                  ScanRange(query.ptg, query.p,
                            BoundingRange(Neighbourhood(query.ptg, query.p))).k

\* the target's own cell is empty, a neighbouring cell is not
OnlyNeighbourCellsHoldPoints ==
    /\ query.op = "inverse_WS2TP"
    /\ OwnCell(query.ptg, query.p) = << >>
    /\ Neighbourhood(query.ptg, query.p) # {}

\* the (k, n) pairs the scan of inverse_WS2TP visits for p, in scan order
ScannedFor(ptg, p) ==
    LET r == BoundingRange(CellsAround(ptg, x_to_ix(grid_size, grid_resolution, p.x),
                                       x_to_ix(grid_size, grid_resolution, p.y)))
    IN  ScanOrder(ptg, r[1], r[3], r[2], r[4])

\* the scanned CPoint with the least squared distance to p, the first such
NearestScanned(ptg, p) ==
    LET scan == ScannedFor(ptg, p)
        cp(i) == cpoints(ptg)[scan[i][1]][scan[i][2] + 1]
        best == CHOOSE i \in 1..Len(scan) :
                    \A j \in 1..Len(scan) :
                        \/ SqDist(p, cp(i)) < SqDist(p, cp(j))
                        \/ SqDist(p, cp(i)) = SqDist(p, cp(j)) /\ i <= j
    IN  [k |-> scan[best][1], d |-> cp(best).d]

\* C16: an exact result of inverse_WS2TP has the k of the scanned CPoint
\* with the least squared distance to p and that CPoint's cumulative
\* distance d divided by distance_ref, so that get_distance gives back that
\* CPoint's d.
InverseReturnsNormalizedDistance ==
    (query.op = "inverse_WS2TP" /\ query.out.is_exact) =>
        /\ query.out.k = NearestScanned(query.ptg, query.p).k
        /\ query.out.d.num * distance_ref
              = NearestScanned(query.ptg, query.p).d * query.out.d.den
        /\ query.distance = NearestScanned(query.ptg, query.p).d

\* an exact result for a target whose nearest scanned CPoint is not the
\* origin of the trajectories
ExactResultAwayFromOrigin ==
    /\ query.op = "inverse_WS2TP"
    /\ query.out.is_exact
    /\ NearestScanned(query.ptg, query.p).d > 0

\* ------------------------------------------------------------------------
\* Properties of the tree and of the extension step of solve

\* the first node of the least distance to to_pose under APTG a, every
\* node evaluated; 0 when no node has a finite distance
NearestOfAll(nodes, to_pose, a) ==
    LET dist == [i \in 1..Len(nodes) |-> DistFromNode(nodes, i, to_pose, a)]
        finite == {i \in 1..Len(nodes) : dist[i] < Inf}
    IN  IF finite = {} THEN 0
        ELSE CHOOSE i \in finite :
                 \A j \in finite : dist[i] < dist[j] \/ (dist[i] = dist[j] /\ i <= j)

\* C17: get_aptg_nearest_node returns the first node of minimal PTG
\* distance to the target over all nodes of the tree, as if no node were
\* skipped by the pre-filter on |dx| and |dy|, and no node exactly when
\* every node's distance is infinite.
PrefilterKeepsNearest ==
    \A a \in AptgIdx : \A p \in SamplePoses :
        (\A i \in 1..Len(tree.nodes) : ptg_at_phi_ok(tree.nodes[i].pose.phi)) =>
            get_aptg_nearest_node(tree.nodes, p, a).node_min
                = NearestOfAll(tree.nodes, p, a)

\* the edge e is in the edges_to_child of node n this many times
TimesInChildList(t, n, e) ==
    Cardinality({j \in DOMAIN t.nodes[n].edges_to_child :
                    t.nodes[n].edges_to_child[j].oid = e.oid})

\* C18: edges are dually indexed without duplication: there is one edge
\* less than nodes, every edge of Tree._edges is exactly once in the
\* edges_to_child of its parent and in no other node's, and the i-th edge
\* has the parent and the pose of node i+1.
EdgesDuallyIndexed ==
    /\ Len(tree.edges) = Len(tree.nodes) - 1
    /\ \A i \in 1..Len(tree.edges) :
          /\ tree.edges[i].parent \in 1..Len(tree.nodes)
          /\ \A n \in 1..Len(tree.nodes) :
                TimesInChildList(tree, n, tree.edges[i])
                    = IF n = tree.edges[i].parent THEN 1 ELSE 0
          /\ \E j \in DOMAIN tree.nodes[tree.edges[i].parent].edges_to_child :
                tree.nodes[tree.edges[i].parent].edges_to_child[j] = tree.edges[i]
          /\ tree.edges[i].parent = tree.nodes[i + 1].parent
          /\ tree.edges[i].end_pose = tree.nodes[i + 1].pose

\* two edges were committed under different parents
EdgesUnderTwoParents ==
    /\ Len(tree.edges) = 2
    /\ tree.edges[1].parent # tree.edges[2].parent
    /\ Len(tree.nodes[tree.edges[2].parent].edges_to_child) = 1

\* C19: in solve get_cpoint_at_d(d_new, k_rand) always returns a CPoint: it
\* is reached only when the last CPoint of trajectory k_rand has d >= d_new,
\* so the end pose of every candidate edge is defined.
ExtensionEndPoseDefined ==
    query.op = "extend" =>
        /\ ~(query.out.outcome = "raise" /\ query.out.why = "cpoint")
        /\ query.out.outcome \notin {"too_short", "not_free"} =>
              /\ get_cpoint_at_d(query.ptg, query.d_new, query.k) # << >>
              /\ get_cpoint_at_d(query.ptg, query.d_new, query.k)[1].d >= query.d_new

\* an extension exactly as long as its trajectory got the last CPoint as
\* its end
ExtensionToEndOfTrajectory ==
    /\ query.op = "extend"
    /\ query.d_new > 0
    /\ query.d_new = LastCPoint(query.ptg, query.k).d
    /\ query.out.outcome = "candidate"
    /\ query.out.edge.end_pose.x = LastCPoint(query.ptg, query.k).pose.x
    /\ query.out.edge.end_pose.y = LastCPoint(query.ptg, query.k).pose.y

\* C20: an iteration in which some APTG gave a collision-free candidate
\* whose end pose satisfies the goal tolerance commits a node that
\* satisfies it and leaves the loop; the goal candidate is not discarded
\* for a candidate that is not at the goal.
GoalCandidateCommitted ==
    [][(/\ AtCommit
        /\ \E j \in 1..Len(accepted) : IsAcceptableGoal(accepted[j].edge.end_pose)) =>
           /\ Len(tree'.nodes) = Len(tree.nodes) + 1
           /\ IsAcceptableGoal(tree'.nodes[Len(tree'.nodes)].pose)
           /\ pc' = "after"]_vars

====
